---- MODULE Spec2Model ----
(***************************************************************************)
(* State-machine model of the S3 facade in package application             *)
(* (type s3Service): BucketExists, CreateBucket, UploadFile,               *)
(* UploadLargeObject, DownloadFile, DownloadLargeObject, CopyToFolder,     *)
(* ListObjects, DeleteObjects, DeleteBucket, ListBuckets.                  *)
(*                                                                         *)
(* The facade is a sequential client.  Every handler is one action, except *)
(* the two handlers that run the SDK's upload / download manager, whose    *)
(* concurrent part transfers are modelled one request at a time.           *)
(* The storage provider is the environment: each request the code issues   *)
(* is answered according to the current bucket / object state, or fails    *)
(* with a transport error (an error that is not a smithy.APIError).        *)
(* Strings are sequences of characters; payloads are sequences of bytes.   *)
(***************************************************************************)
EXTENDS Integers, Sequences, FiniteSets, TLC

VARIABLES
    bucketState,  \* provider: bucket -> "absent" | "owned" | "forbidden"
    store,        \* provider: bucket -> (key -> payload) of the objects it holds
    files,        \* local file system: file name -> [exists, data]
    sessions,     \* provider: the state of each multipart session, by upload id
    uploaded,     \* provider: part number -> bytes, the parts of the open session
    up,           \* the upload manager's state while UploadLargeObject runs
    down,         \* the download manager's state while DownloadLargeObject runs
    last          \* the last handler call: its arguments and what it returned

vars == <<bucketState, store, files, sessions, uploaded, up, down, last>>

----------------------------------------------------------------------------
(* Bounds of the model *)

\* Part size of the upload / download manager, scaled down from 10 MiB.
PartSize == 2

\* Largest number of parts of a payload.
MaxParts == 3

\* Number of keys the provider returns in one ListObjectsV2 page (scaled down).
PageSize == 2

\* Number of part requests the managers keep in flight at once (scaled down).
Concurrency == 2

MaxLen == MaxParts * PartSize

----------------------------------------------------------------------------
(* Values *)

Buckets == {"b1", "b2"}

ObjectNames == {<<"a">>, <<"b">>}

FolderNames == {<<"f">>}

\* fmt.Sprintf("%v/%v", folderName, objectKey)
Join(folderName, objectKey) == folderName \o <<"/">> \o objectKey

AllKeys == ObjectNames \cup {Join(f, k) : f \in FolderNames, k \in ObjectNames}

\* The key lists DeleteObjects is called with.
KeySets == {{}, AllKeys} \cup {{k} : k \in AllKeys}

\* The upload ids the provider hands out, in this order.
UploadIds == <<"u1", "u2">>

Regions == {"sa-east-1", "nowhere"}

FileNames == {"in", "out"}

\* The payload of n bytes; byte i has value i, so any reordering is visible.
Source(n) == [i \in 1..n |-> i]

Payloads == {Source(n) : n \in 0..MaxLen}

\* The content of the local file "in".
FileData == <<1, 2>>

Prefix(s, n) == SubSeq(s, 1, n)

\* Errors the provider answers with (each a smithy.APIError) ...
APIErrors == {"NotFound", "Forbidden", "NoSuchBucket", "NoSuchKey", "BucketNotEmpty",
              "BucketAlreadyOwnedByYou", "BucketAlreadyExists",
              "InvalidLocationConstraint", "MalformedXML", "InvalidPartOrder",
              "InvalidPart", "InvalidRange", "NoSuchUpload"}

\* ... and an error raised below the API (network, serialisation).
TransportError == "Transport"

IsAPIError(e) == e \in APIErrors

NoErr == "nil"

EmptyMap == <<>>

Put(f, k, v) == [x \in (DOMAIN f) \cup {k} |-> IF x = k THEN v ELSE f[x]]

Remove(f, K) == [x \in (DOMAIN f) \ K |-> f[x]]

\* What a request to bucket b fails with when b is not the caller's.
BucketError(b) == IF bucketState[b] = "absent" THEN "NoSuchBucket" ELSE "Forbidden"

----------------------------------------------------------------------------
(* Byte order of keys, as ListObjectsV2 returns them *)

CharRank(c) == CASE c = "/" -> 47 [] c = "a" -> 97 [] c = "b" -> 98 [] c = "f" -> 102

RECURSIVE KeyLess(_, _)
KeyLess(k1, k2) ==
    IF k1 = <<>> THEN k2 # <<>>
    ELSE IF k2 = <<>> THEN FALSE
    ELSE IF Head(k1) = Head(k2) THEN KeyLess(Tail(k1), Tail(k2))
    ELSE CharRank(Head(k1)) < CharRank(Head(k2))

MinKey(S) == CHOOSE k \in S : \A j \in S \ {k} : KeyLess(k, j)

RECURSIVE SortedKeys(_)
SortedKeys(S) == IF S = {} THEN <<>> ELSE <<MinKey(S)>> \o SortedKeys(S \ {MinKey(S)})

----------------------------------------------------------------------------
(* Initial state *)

Idle == [phase |-> "idle"]

Init ==
    /\ bucketState = [b \in Buckets |-> IF b = "b1" THEN "absent" ELSE "forbidden"]
    /\ store = [b \in Buckets |-> EmptyMap]
    /\ files = [f \in FileNames |->
                   IF f = "in" THEN [exists |-> TRUE, data |-> FileData]
                   ELSE [exists |-> FALSE, data |-> <<>>]]
    /\ sessions = <<>>
    /\ uploaded = EmptyMap
    /\ up = Idle
    /\ down = Idle
    /\ last = [op |-> "NewClient", err |-> NoErr]

IsIdle == up.phase = "idle" /\ down.phase = "idle"

----------------------------------------------------------------------------
(* ListBuckets *)

ListBucketsResponses == {NoErr, TransportError}

ListBuckets ==
    /\ IsIdle
    /\ \E r \in ListBucketsResponses :
          last' = [op |-> "ListBuckets", err |-> r,
                   buckets |-> IF r = NoErr
                               THEN {b \in Buckets : bucketState[b] = "owned"}
                               ELSE {}]
    /\ UNCHANGED <<bucketState, store, files, sessions, uploaded, up, down>>

----------------------------------------------------------------------------
(* BucketExists *)

\* The answers HeadBucket can give for bucket b.
HeadBucketResponses(b) ==
    {TransportError} \cup
    {CASE bucketState[b] = "owned" -> NoErr
       [] bucketState[b] = "absent" -> "NotFound"
       [] bucketState[b] = "forbidden" -> "Forbidden"}

BucketExistsResultNoDefault(probe) ==
    IF probe = NoErr THEN [exists |-> TRUE, err |-> NoErr]
    ELSE IF IsAPIError(probe) THEN [exists |-> FALSE, err |-> NoErr]
    ELSE [exists |-> TRUE, err |-> probe]

\* What BucketExists returns when HeadBucket answered probe.
BucketExistsResult(probe) ==
    IF probe # NoErr
    THEN IF IsAPIError(probe)
         THEN IF probe = "NotFound"
              THEN [exists |-> FALSE, err |-> NoErr]
              ELSE [exists |-> TRUE, err |-> probe]
         ELSE [exists |-> TRUE, err |-> probe]
    ELSE [exists |-> TRUE, err |-> NoErr]

BucketExists(bucketName) ==
    /\ IsIdle
    /\ \E probe \in HeadBucketResponses(bucketName) :
          last' = [op |-> "BucketExists", bucket |-> bucketName, probe |-> probe,
                   exists |-> BucketExistsResult(probe).exists,
                   err |-> BucketExistsResult(probe).err]
    /\ UNCHANGED <<bucketState, store, files, sessions, uploaded, up, down>>

----------------------------------------------------------------------------
(* CreateBucket *)

CreateBucketResponses(name, region) ==
    {TransportError} \cup
    {IF region # "sa-east-1" THEN "InvalidLocationConstraint"
     ELSE CASE bucketState[name] = "absent" -> NoErr
            [] bucketState[name] = "owned" -> "BucketAlreadyOwnedByYou"
            [] bucketState[name] = "forbidden" -> "BucketAlreadyExists"}

CreateBucket(name, region) ==
    /\ IsIdle
    /\ \E r \in CreateBucketResponses(name, region) :
          /\ bucketState' = IF r = NoErr THEN [bucketState EXCEPT ![name] = "owned"]
                            ELSE bucketState
          /\ last' = [op |-> "CreateBucket", bucket |-> name, err |-> r]
    /\ UNCHANGED <<store, files, sessions, uploaded, up, down>>

----------------------------------------------------------------------------
(* DeleteBucket *)

\* The provider refuses to delete a bucket that holds objects.
DeleteBucketResponses(bucketName) ==
    {TransportError} \cup
    {IF bucketState[bucketName] # "owned" THEN BucketError(bucketName)
     ELSE IF DOMAIN store[bucketName] # {} THEN "BucketNotEmpty"
     ELSE NoErr}

DeleteBucketReturnNil(r) == NoErr

\* DeleteBucket logs the provider's error and returns it.
DeleteBucketReturn(r) == r

DeleteBucket(bucketName) ==
    /\ IsIdle
    /\ \E r \in DeleteBucketResponses(bucketName) :
          /\ bucketState' = IF r = NoErr THEN [bucketState EXCEPT ![bucketName] = "absent"]
                            ELSE bucketState
          /\ store' = IF r = NoErr THEN [store EXCEPT ![bucketName] = EmptyMap] ELSE store
          /\ last' = [op |-> "DeleteBucket", bucket |-> bucketName,
                      err |-> DeleteBucketReturn(r)]
    /\ UNCHANGED <<files, sessions, uploaded, up, down>>

----------------------------------------------------------------------------
(* UploadFile *)

PutObjectResponses(bucketName) ==
    {TransportError} \cup
    {IF bucketState[bucketName] # "owned" THEN BucketError(bucketName) ELSE NoErr}

UploadFile(bucketName, objectKey, fileName) ==
    /\ IsIdle
    /\ IF ~files[fileName].exists
       THEN \* os.Open failed: nothing is sent
            /\ last' = [op |-> "UploadFile", bucket |-> bucketName, key |-> objectKey,
                        file |-> fileName, err |-> "OpenFailed"]
            /\ store' = store
       ELSE \E r \in PutObjectResponses(bucketName) :
            /\ store' = IF r = NoErr
                        THEN [store EXCEPT ![bucketName] =
                                 Put(@, objectKey, files[fileName].data)]
                        ELSE store
            /\ last' = [op |-> "UploadFile", bucket |-> bucketName, key |-> objectKey,
                        file |-> fileName, err |-> r]
    /\ UNCHANGED <<bucketState, files, sessions, uploaded, up, down>>

----------------------------------------------------------------------------
(* DownloadFile *)

GetObjectResponses(bucketName, objectKey) ==
    {TransportError} \cup
    {IF bucketState[bucketName] # "owned" THEN BucketError(bucketName)
     ELSE IF objectKey \notin DOMAIN store[bucketName] THEN "NoSuchKey"
     ELSE NoErr}

\* io.ReadAll(result.Body): the whole body, or the bytes read before an error.
ReadAllOutcomes(object) ==
    {[body |-> object, err |-> NoErr]} \cup
    {[body |-> Prefix(object, n), err |-> "ReadFailed"] : n \in 0..(Len(object) - 1)}

\* file.Write(body): all of body, or a short write with an error.
WriteOutcomes(body) ==
    {[data |-> body, err |-> NoErr]} \cup
    {[data |-> Prefix(body, n), err |-> "WriteFailed"] : n \in 0..(Len(body) - 1)} \cup
    {[data |-> body, err |-> "WriteFailed"]}

\* The error DownloadFile returns once the file is created: the read error is
\* logged, and err is then assigned the result of file.Write.
DownloadFileReturn(readErr, writeErr) == writeErr

\* The previous call, when it was a successful UploadLargeObject of this object.
JustUploaded(bucketName, objectKey) ==
    IF /\ last.op = "UploadLargeObject"
       /\ last.err = NoErr
       /\ last.bucket = bucketName
       /\ last.key = objectKey
    THEN [ok |-> TRUE, src |-> last.src]
    ELSE [ok |-> FALSE, src |-> <<>>]

DownloadFile(bucketName, objectKey, fileName) ==
    /\ IsIdle
    /\ \E r \in GetObjectResponses(bucketName, objectKey) :
          LET call == [op |-> "DownloadFile", bucket |-> bucketName, key |-> objectKey,
                       file |-> fileName,
                       uploaded |-> JustUploaded(bucketName, objectKey)]
          IN
          IF r # NoErr
          THEN /\ files' = files
               /\ last' = call @@ [err |-> r, readErr |-> NoErr]
          ELSE \/ \* os.Create failed
                  /\ files' = files
                  /\ last' = call @@ [err |-> "CreateFailed", readErr |-> NoErr]
               \/ \* os.Create truncated the file; read the body, write it
                  \E rd \in ReadAllOutcomes(store[bucketName][objectKey]) :
                  \E wr \in WriteOutcomes(rd.body) :
                     /\ files' = [files EXCEPT ![fileName] =
                                     [exists |-> TRUE, data |-> wr.data]]
                     /\ last' = call @@ [err |-> DownloadFileReturn(rd.err, wr.err),
                                         readErr |-> rd.err]
    /\ UNCHANGED <<bucketState, store, sessions, uploaded, up, down>>

----------------------------------------------------------------------------
(* CopyToFolder *)

CopyRequestFlat(bucketName, objectKey, folderName) ==
    [srcBucket |-> bucketName, srcKey |-> objectKey,
     dstBucket |-> bucketName, dstKey |-> folderName]

\* The request CopyToFolder builds: Bucket, CopySource = bucket/objectKey, Key.
CopyRequest(bucketName, objectKey, folderName) ==
    [srcBucket |-> bucketName, srcKey |-> objectKey,
     dstBucket |-> bucketName, dstKey |-> Join(folderName, objectKey)]

CopyObjectResponses(req) ==
    {TransportError} \cup
    {IF bucketState[req.dstBucket] # "owned" THEN BucketError(req.dstBucket)
     ELSE IF bucketState[req.srcBucket] # "owned" THEN BucketError(req.srcBucket)
     ELSE IF req.srcKey \notin DOMAIN store[req.srcBucket] THEN "NoSuchKey"
     ELSE NoErr}

CopyToFolder(bucketName, objectKey, folderName) ==
    /\ IsIdle
    /\ LET req == CopyRequest(bucketName, objectKey, folderName) IN
       \E r \in CopyObjectResponses(req) :
          /\ store' = IF r = NoErr
                      THEN [store EXCEPT ![req.dstBucket] =
                               Put(@, req.dstKey, store[req.srcBucket][req.srcKey])]
                      ELSE store
          /\ last' = [op |-> "CopyToFolder", bucket |-> bucketName, key |-> objectKey,
                      folder |-> folderName, err |-> r]
    /\ UNCHANGED <<bucketState, files, sessions, uploaded, up, down>>

----------------------------------------------------------------------------
(* ListObjects *)

\* One ListObjectsV2 answer without a continuation token: the first page of the
\* bucket's keys in byte order, and whether more keys follow.
ListObjectsV2Page(bucketName) ==
    LET keys == SortedKeys(DOMAIN store[bucketName])
        n == IF Len(keys) < PageSize THEN Len(keys) ELSE PageSize
    IN [Contents |-> Prefix(keys, n), IsTruncated |-> Len(keys) > PageSize]

ListObjectsV2Responses(bucketName) ==
    {TransportError} \cup
    {IF bucketState[bucketName] # "owned" THEN BucketError(bucketName) ELSE NoErr}

\* ListObjects issues one request and returns result.Contents.
ListObjects(bucketName) ==
    /\ IsIdle
    /\ \E r \in ListObjectsV2Responses(bucketName) :
          last' = [op |-> "ListObjects", bucket |-> bucketName, err |-> r,
                   contents |-> IF r = NoErr THEN ListObjectsV2Page(bucketName).Contents
                                ELSE <<>>]
    /\ UNCHANGED <<bucketState, store, files, sessions, uploaded, up, down>>

----------------------------------------------------------------------------
(* DeleteObjects *)

DeleteObjectsResponses(bucketName, objectKeys) ==
    {TransportError} \cup
    {IF bucketState[bucketName] # "owned" THEN BucketError(bucketName)
     ELSE IF objectKeys = {} THEN "MalformedXML"
     ELSE NoErr}

DeleteObjects(bucketName, objectKeys) ==
    /\ IsIdle
    /\ \E r \in DeleteObjectsResponses(bucketName, objectKeys) :
          /\ store' = IF r = NoErr
                      THEN [store EXCEPT ![bucketName] = Remove(@, objectKeys)]
                      ELSE store
          /\ last' = [op |-> "DeleteObjects", bucket |-> bucketName, keys |-> objectKeys,
                      err |-> r]
    /\ UNCHANGED <<bucketState, files, sessions, uploaded, up, down>>

----------------------------------------------------------------------------
(* UploadLargeObject: the upload manager                                    *)
(*                                                                         *)
(* UploadLargeObject hands the payload to the SDK's manager.Uploader.  The *)
(* manager's steps follow its documented behaviour: a payload of at most   *)
(* one part is sent with PutObject; a larger one opens a multipart session,*)
(* sends its parts from concurrent workers, completes the session with the *)
(* parts sorted by number, and on any failure aborts the session unless    *)
(* LeavePartsOnError is set, logging an abort that fails.                  *)

\* The options UploadLargeObject gives manager.NewUploader set PartSize only:
\* LeavePartsOnError keeps its default, so a failed upload aborts its session.
LeavePartsOnErrorSet == TRUE

LeavePartsOnError == FALSE

NumParts(src) == (Len(src) + PartSize - 1) \div PartSize

Min(a, b) == IF a < b THEN a ELSE b

Max(a, b) == IF a < b THEN b ELSE a

\* Part p of the payload, parts numbered from 1.
Chunk(src, p) == SubSeq(src, (p - 1) * PartSize + 1, Min(p * PartSize, Len(src)))

\* The object stored under a key: [has, data].
ObjAt(bucketName, objectKey) ==
    IF objectKey \in DOMAIN store[bucketName]
    THEN [has |-> TRUE, data |-> store[bucketName][objectKey]]
    ELSE [has |-> FALSE, data |-> <<>>]

\* A payload that fits one part is sent with a single PutObject.
UploadSinglePart(bucketName, objectKey, largeObject) ==
    /\ IsIdle
    /\ Len(largeObject) <= PartSize
    /\ \E r \in PutObjectResponses(bucketName) :
          /\ store' = IF r = NoErr
                      THEN [store EXCEPT ![bucketName] = Put(@, objectKey, largeObject)]
                      ELSE store
          /\ last' = [op |-> "UploadLargeObject", bucket |-> bucketName,
                      key |-> objectKey, src |-> largeObject, multipart |-> FALSE,
                      err |-> r]
    /\ UNCHANGED <<bucketState, files, sessions, uploaded, up, down>>

CreateMultipartUploadResponses(bucketName) ==
    {"CreateMultipartUpload failed"} \cup
    {IF bucketState[bucketName] # "owned" THEN BucketError(bucketName) ELSE NoErr}

\* A larger payload opens a multipart session; if that fails the call returns.
UploadStart(bucketName, objectKey, largeObject) ==
    /\ IsIdle
    /\ Len(largeObject) > PartSize
    /\ Len(sessions) < Len(UploadIds)
    /\ \E r \in CreateMultipartUploadResponses(bucketName) :
          IF r # NoErr
          THEN /\ last' = [op |-> "UploadLargeObject", bucket |-> bucketName,
                           key |-> objectKey, src |-> largeObject, multipart |-> FALSE,
                           err |-> r]
               /\ UNCHANGED <<sessions, uploaded, up>>
          ELSE /\ sessions' = Append(sessions, "Initiated")
               /\ uploaded' = EmptyMap
               /\ up' = [phase |-> "uploading", bucket |-> bucketName, key |-> objectKey,
                         src |-> largeObject, id |-> Len(sessions) + 1,
                         before |-> ObjAt(bucketName, objectKey),
                         next |-> 1, inflight |-> {}, parts |-> <<>>,
                         err |-> NoErr, errFrom |-> "none", failed |-> {},
                         attempted |-> FALSE, manifest |-> <<>>, abort |-> "none"]
               /\ last' = [op |-> "UploadLargeObject running"]
    /\ UNCHANGED <<bucketState, store, files, down>>

\* The reader hands the next part to a free worker, while no part has failed.
UploadDispatch ==
    /\ up.phase = "uploading"
    /\ up.err = NoErr
    /\ up.next <= NumParts(up.src)
    /\ Cardinality(up.inflight) < Concurrency
    /\ up' = [up EXCEPT !.inflight = @ \cup {up.next}, !.next = @ + 1]
    /\ sessions' = [sessions EXCEPT ![up.id] = "PartsUploading"]
    /\ UNCHANGED <<bucketState, store, files, uploaded, down, last>>

UploadPartResponses == {NoErr, "UploadPart failed"}

\* One in-flight UploadPart ends: the part is stored and its number and ETag are
\* appended to the completed parts, or the upload's error is set.
UploadPartDone(p) ==
    /\ up.phase = "uploading"
    /\ p \in up.inflight
    /\ \E r \in UploadPartResponses :
          IF r = NoErr
          THEN /\ uploaded' = Put(uploaded, p, Chunk(up.src, p))
               /\ up' = [up EXCEPT !.inflight = @ \ {p},
                                   !.parts = Append(@, [num |-> p,
                                                        etag |-> Chunk(up.src, p)])]
          ELSE /\ uploaded' = uploaded
               /\ up' = [up EXCEPT !.inflight = @ \ {p}, !.err = r,
                                   !.errFrom = "part", !.failed = @ \cup {p}]
    /\ UNCHANGED <<bucketState, store, files, sessions, down, last>>

RECURSIVE InsertPart(_, _)
InsertPart(sorted, part) ==
    IF sorted = <<>> THEN <<part>>
    ELSE IF part.num < Head(sorted).num THEN <<part>> \o sorted
    ELSE <<Head(sorted)>> \o InsertPart(Tail(sorted), part)

RECURSIVE SortPartsFrom(_, _)
SortPartsFrom(parts, sorted) ==
    IF parts = <<>> THEN sorted
    ELSE SortPartsFrom(Tail(parts), InsertPart(sorted, Head(parts)))

SortPartsSkipped(parts) == parts

\* The completed parts, sorted by part number.
SortParts(parts) == SortPartsFrom(parts, <<>>)

IsAscending(manifest) ==
    \A i \in 1..(Len(manifest) - 1) : manifest[i].num < manifest[i + 1].num

RECURSIVE Assemble(_, _)
Assemble(manifest, stored) ==
    IF manifest = <<>> THEN <<>>
    ELSE stored[Head(manifest).num] \o Assemble(Tail(manifest), stored)

\* The provider's answer to CompleteMultipartUpload with this manifest.  A request
\* that fails in transport is taken not to have reached the provider.
CompleteMultipartUploadResponses(id, manifest) ==
    {"CompleteMultipartUpload failed"} \cup
    {IF sessions[id] \notin {"Initiated", "PartsUploading"} THEN "NoSuchUpload"
     ELSE IF ~IsAscending(manifest) THEN "InvalidPartOrder"
     ELSE IF \E i \in 1..Len(manifest) :
                \/ manifest[i].num \notin DOMAIN uploaded
                \/ manifest[i].etag # uploaded[manifest[i].num]
          THEN "InvalidPart"
     ELSE NoErr}

\* All workers are done and every part was sent: complete the session with the
\* sorted manifest.  The object appears under the key when the provider accepts.
UploadComplete ==
    /\ up.phase = "uploading"
    /\ up.inflight = {}
    /\ up.err = NoErr
    /\ up.next > NumParts(up.src)
    /\ LET manifest == SortParts(up.parts) IN
       \E r \in CompleteMultipartUploadResponses(up.id, manifest) :
          IF r = NoErr
          THEN /\ store' = [store EXCEPT ![up.bucket] =
                               Put(@, up.key, Assemble(manifest, uploaded))]
               /\ sessions' = [sessions EXCEPT ![up.id] = "Completed"]
               /\ uploaded' = EmptyMap
               /\ up' = [up EXCEPT !.phase = "returning", !.attempted = TRUE,
                                   !.manifest = manifest]
          ELSE /\ UNCHANGED <<store, sessions, uploaded>>
               /\ up' = [up EXCEPT !.phase = "failing", !.attempted = TRUE,
                                   !.manifest = manifest, !.err = r,
                                   !.errFrom = "complete"]
    /\ UNCHANGED <<bucketState, files, down, last>>

UploadGiveUpCompletes ==
    /\ up.phase = "uploading"
    /\ up.inflight = {}
    /\ up.err # NoErr
    /\ store' = [store EXCEPT ![up.bucket] =
                    Put(@, up.key, Assemble(SortParts(up.parts), uploaded))]
    /\ sessions' = [sessions EXCEPT ![up.id] = "Completed"]
    /\ uploaded' = EmptyMap
    /\ up' = [up EXCEPT !.phase = "returning"]
    /\ UNCHANGED <<bucketState, files, down, last>>

\* All workers are done and a part has failed: completion is not attempted.
UploadGiveUp ==
    /\ up.phase = "uploading"
    /\ up.inflight = {}
    /\ up.err # NoErr
    /\ up' = [up EXCEPT !.phase = "failing"]
    /\ UNCHANGED <<bucketState, store, files, sessions, uploaded, down, last>>

AbortMultipartUploadResponses == {NoErr, "AbortMultipartUpload failed"}

\* fail(): unless parts are to be left, abort the session; an abort that fails is
\* logged and the upload's error is kept.
UploadFail ==
    /\ up.phase = "failing"
    /\ IF LeavePartsOnError
       THEN /\ up' = [up EXCEPT !.phase = "returning"]
            /\ UNCHANGED <<sessions, uploaded>>
       ELSE \E r \in AbortMultipartUploadResponses :
            /\ sessions' = IF r = NoErr THEN [sessions EXCEPT ![up.id] = "Aborted"]
                           ELSE sessions
            /\ uploaded' = IF r = NoErr THEN EmptyMap ELSE uploaded
            /\ up' = [up EXCEPT !.phase = "returning",
                                !.abort = IF r = NoErr THEN "ok" ELSE "failed"]
    /\ UNCHANGED <<bucketState, store, files, down, last>>

\* Upload returns; UploadLargeObject logs the error and returns it.
UploadReturn ==
    /\ up.phase = "returning"
    /\ last' = [op |-> "UploadLargeObject", bucket |-> up.bucket, key |-> up.key,
                src |-> up.src, multipart |-> TRUE, id |-> up.id,
                before |-> up.before, err |-> up.err, errFrom |-> up.errFrom,
                failed |-> up.failed, attempted |-> up.attempted,
                manifest |-> up.manifest, order |-> up.parts, abort |-> up.abort]
    /\ up' = Idle
    /\ UNCHANGED <<bucketState, store, files, sessions, uploaded, down>>

----------------------------------------------------------------------------
(* DownloadLargeObject: the download manager writing into a WriteAtBuffer  *)
(*                                                                         *)
(* The SDK's manager.Downloader fetches the object in ranges of PartSize   *)
(* bytes from concurrent workers and writes each range with WriteAt at the *)
(* range's offset.                                                         *)

WriteAppend(buf, pos, p) == buf \o p

\* WriteAtBuffer.WriteAt: grow the buffer to pos + len(p), zero filled, and copy p
\* at offset pos.
WriteAt(buf, pos, p) ==
    [i \in 1..Max(Len(buf), pos + Len(p)) |->
        IF pos < i /\ i <= pos + Len(p) THEN p[i - pos]
        ELSE IF i <= Len(buf) THEN buf[i]
        ELSE 0]

\* The bytes of a ranged GetObject: bytes=start..start+PartSize-1 of the object.
Range(object, start) == SubSeq(object, start + 1, Min(start + PartSize, Len(object)))

\* A ranged GetObject and the copy of its body into the buffer at the range's
\* offset: all of the range, or an error after only some of its bytes.
ChunkOutcomes(object, start) ==
    {[data |-> Range(object, start), err |-> NoErr]} \cup
    {[data |-> Prefix(Range(object, start), n), err |-> "GetObject body failed"] :
        n \in 0..(Len(Range(object, start)) - 1)}

\* The first range is fetched before any worker starts; its answer tells the
\* object's size.  A range request on an empty object is answered with
\* InvalidRange or with an empty body.
DownloadStart(bucketName, objectKey) ==
    /\ IsIdle
    /\ LET call == [phase |-> "downloading", bucket |-> bucketName, key |-> objectKey,
                    total |-> 0, pos |-> PartSize, inflight |-> {}, order |-> <<>>,
                    buffer |-> <<>>, err |-> NoErr]
       IN
       \E r \in GetObjectResponses(bucketName, objectKey) :
          IF r # NoErr
          THEN down' = [call EXCEPT !.err = r]
          ELSE LET object == store[bucketName][objectKey] IN
               IF object = <<>>
               THEN \E e \in {NoErr, "InvalidRange"} : down' = [call EXCEPT !.err = e]
               ELSE \E c \in ChunkOutcomes(object, 0) :
                       down' = [call EXCEPT !.total = Len(object),
                                            !.buffer = WriteAt(<<>>, 0, c.data),
                                            !.order = <<0>>,
                                            !.err = c.err]
    /\ last' = [op |-> "DownloadLargeObject running"]
    /\ UNCHANGED <<bucketState, store, files, sessions, uploaded, up>>

\* The next range is handed to a free worker, while no range has failed.
DownloadDispatch ==
    /\ down.phase = "downloading"
    /\ down.err = NoErr
    /\ down.pos < down.total
    /\ Cardinality(down.inflight) < Concurrency
    /\ down' = [down EXCEPT !.inflight = @ \cup {down.pos}, !.pos = @ + PartSize]
    /\ UNCHANGED <<bucketState, store, files, sessions, uploaded, up, last>>

\* One in-flight range ends: its bytes are written at its offset.
DownloadChunkDone(start) ==
    /\ down.phase = "downloading"
    /\ start \in down.inflight
    /\ \E c \in ChunkOutcomes(store[down.bucket][down.key], start) :
          down' = [down EXCEPT !.inflight = @ \ {start},
                               !.buffer = WriteAt(@, start, c.data),
                               !.order = Append(@, start),
                               !.err = IF c.err # NoErr THEN c.err ELSE @]
    /\ UNCHANGED <<bucketState, store, files, sessions, uploaded, up, last>>

\* Download returns; DownloadLargeObject logs the error, returns buffer.Bytes().
DownloadReturn ==
    /\ down.phase = "downloading"
    /\ down.inflight = {}
    /\ down.err # NoErr \/ down.pos >= down.total
    /\ last' = [op |-> "DownloadLargeObject", bucket |-> down.bucket, key |-> down.key,
                bytes |-> down.buffer, order |-> down.order, err |-> down.err]
    /\ down' = Idle
    /\ UNCHANGED <<bucketState, store, files, sessions, uploaded, up>>

----------------------------------------------------------------------------
(* The facade's single-request handlers, called in any order *)

Next ==
    \/ ListBuckets
    \/ \E b \in Buckets : BucketExists(b)
    \/ \E b \in Buckets, r \in Regions : CreateBucket(b, r)
    \/ \E b \in Buckets : DeleteBucket(b)
    \/ \E b \in Buckets, k \in ObjectNames, f \in FileNames : UploadFile(b, k, f)
    \/ \E b \in Buckets, k \in AllKeys : DownloadFile(b, k, "out")
    \/ \E b \in Buckets, k \in ObjectNames, f \in FolderNames : CopyToFolder(b, k, f)
    \/ \E b \in Buckets : ListObjects(b)
    \/ \E b \in Buckets, K \in KeySets : DeleteObjects(b, K)

Spec == Init /\ [][Next]_vars

----------------------------------------------------------------------------
(* Large uploads to one key of a bucket the caller owns *)

LargeKey == <<"a">>

\* The object found under the key at the start.
OldData == <<9>>

InitLarge ==
    /\ bucketState = [b \in Buckets |-> IF b = "b1" THEN "owned" ELSE "forbidden"]
    /\ store = [b \in Buckets |-> IF b = "b1" THEN Put(EmptyMap, LargeKey, OldData)
                                  ELSE EmptyMap]
    /\ files = [f \in FileNames |->
                   IF f = "in" THEN [exists |-> TRUE, data |-> FileData]
                   ELSE [exists |-> FALSE, data |-> <<>>]]
    /\ sessions = <<>>
    /\ uploaded = EmptyMap
    /\ up = Idle
    /\ down = Idle
    /\ last = [op |-> "NewClient", err |-> NoErr]

UploadLargeObject ==
    \/ \E b \in Buckets, src \in Payloads : UploadSinglePart(b, LargeKey, src)
    \/ \E b \in Buckets, src \in Payloads : UploadStart(b, LargeKey, src)
    \/ UploadDispatch
    \/ \E p \in 1..MaxParts : UploadPartDone(p)
    \/ UploadComplete
    \/ UploadGiveUp
    \/ UploadFail
    \/ UploadReturn

NextUpload ==
    \/ UploadLargeObject
    \/ \E b \in Buckets : DeleteObjects(b, {LargeKey})

SpecUpload == InitLarge /\ [][NextUpload]_vars

----------------------------------------------------------------------------
(* A large upload followed by a download to a file *)

NextRoundTrip ==
    \/ UploadLargeObject
    \/ \E b \in Buckets : DownloadFile(b, LargeKey, "out")

SpecRoundTrip == InitLarge /\ [][NextRoundTrip]_vars

----------------------------------------------------------------------------
(* Large downloads of a stored object of any size *)

InitDownload ==
    /\ bucketState = [b \in Buckets |-> IF b = "b1" THEN "owned" ELSE "forbidden"]
    /\ \E object \in Payloads :
          store = [b \in Buckets |-> IF b = "b1" THEN Put(EmptyMap, LargeKey, object)
                                     ELSE EmptyMap]
    /\ files = [f \in FileNames |->
                   IF f = "in" THEN [exists |-> TRUE, data |-> FileData]
                   ELSE [exists |-> FALSE, data |-> <<>>]]
    /\ sessions = <<>>
    /\ uploaded = EmptyMap
    /\ up = Idle
    /\ down = Idle
    /\ last = [op |-> "NewClient", err |-> NoErr]

DownloadLargeObject ==
    \/ \E b \in Buckets, k \in ObjectNames : DownloadStart(b, k)
    \/ DownloadDispatch
    \/ \E start \in 0..MaxLen : DownloadChunkDone(start)
    \/ DownloadReturn

NextDownload ==
    \/ DownloadLargeObject

SpecDownload == InitDownload /\ [][NextDownload]_vars

----------------------------------------------------------------------------
(* Properties *)

IsAscendingSeq(q) == \A i \in 1..(Len(q) - 1) : q[i] < q[i + 1]

\* C1: BucketExists keeps the three probe outcomes apart: a probe that succeeds
\* gives (true, nil); a not-found answer gives (false, nil); any other failure,
\* an API error or not, gives a non-nil error.  (false, nil) is returned only for
\* a bucket that does not exist, (true, nil) only for a bucket the caller owns.
C1_BucketExists ==
    last.op = "BucketExists" =>
        /\ last.probe = NoErr => (last.exists /\ last.err = NoErr)
        /\ last.probe = "NotFound" => (~last.exists /\ last.err = NoErr)
        /\ last.probe \notin {NoErr, "NotFound"} => last.err # NoErr
        /\ (~last.exists /\ last.err = NoErr) => bucketState[last.bucket] = "absent"
        /\ (last.exists /\ last.err = NoErr) => bucketState[last.bucket] = "owned"

C1_Witness ==
    /\ last.op = "BucketExists"
    /\ bucketState[last.bucket] = "forbidden"
    /\ last.probe = "Forbidden"
    /\ last.err = "Forbidden"

\* C2: a ListObjects call that succeeds returns every object of the bucket
\* exactly once, however many pages the bucket fills.
C2_ListObjectsComplete ==
    (last.op = "ListObjects" /\ last.err = NoErr) =>
        /\ {last.contents[i] : i \in 1..Len(last.contents)} = DOMAIN store[last.bucket]
        /\ Len(last.contents) = Cardinality(DOMAIN store[last.bucket])

\* C3: DownloadFile returns a non-nil error whenever a step of it fails, so a nil
\* return means the local file holds the complete object.
C3_DownloadFileComplete ==
    last.op = "DownloadFile" =>
        /\ last.readErr # NoErr => last.err # NoErr
        /\ last.err = NoErr =>
              /\ files[last.file].exists
              /\ files[last.file].data = store[last.bucket][last.key]

\* C9: DeleteBucket on a bucket that holds an object returns a non-nil error and
\* leaves the bucket and its objects as they were; a bucket is removed only when
\* it is empty.
C9_DeleteBucket ==
    [][\A b \in Buckets :
          /\ (last'.op = "DeleteBucket" /\ last'.bucket = b /\ DOMAIN store[b] # {}) =>
                (last'.err # NoErr /\ store' = store /\ bucketState' = bucketState)
          /\ (bucketState[b] = "owned" /\ bucketState'[b] # "owned") =>
                (DOMAIN store[b] = {} /\ last'.op = "DeleteBucket" /\ last'.err = NoErr)
      ]_vars

C9_Witness ==
    /\ last.op = "DeleteBucket"
    /\ last.err = "BucketNotEmpty"
    /\ bucketState[last.bucket] = "owned"
    /\ Cardinality(DOMAIN store[last.bucket]) >= 2

\* C10 as stated: the third argument names the destination independently of the
\* source key, so after a successful copy the object under that name holds the
\* source's bytes.
C10_IndependentDestination ==
    (last.op = "CopyToFolder" /\ last.err = NoErr) =>
        /\ last.folder \in DOMAIN store[last.bucket]
        /\ store[last.bucket][last.folder] = store[last.bucket][last.key]

\* C10, amended: CopyToFolder(bucket, objectKey, folderName) copies within one
\* bucket to the key folderName/objectKey.  When the source object is missing it
\* returns a non-nil error (NoSuchKey when the provider answers); a call that
\* returns an error changes no object; a call that succeeds leaves the source's
\* bytes under folderName/objectKey and changes nothing else.
C10_CopyToFolder ==
    [][\A b \in Buckets, k \in ObjectNames, f \in FolderNames :
          (last'.op = "CopyToFolder" /\ last'.bucket = b /\ last'.key = k
              /\ last'.folder = f) =>
             /\ (bucketState[b] = "owned" /\ k \notin DOMAIN store[b]) =>
                   last'.err \in {"NoSuchKey", TransportError}
             /\ last'.err # NoErr => store' = store
             /\ last'.err = NoErr =>
                   /\ k \in DOMAIN store[b]
                   /\ DOMAIN store'[b] = DOMAIN store[b] \cup {Join(f, k)}
                   /\ store'[b][Join(f, k)] = store[b][k]
                   /\ \A j \in DOMAIN store[b] \ {Join(f, k)} : store'[b][j] = store[b][j]
                   /\ \A c \in Buckets \ {b} : store'[c] = store[c]
      ]_vars

C10_Witness ==
    /\ last.op = "CopyToFolder"
    /\ last.err = NoErr
    /\ Join(last.folder, last.key) \in DOMAIN store[last.bucket]
    /\ store[last.bucket][Join(last.folder, last.key)] = store[last.bucket][last.key]
    /\ last.folder \notin DOMAIN store[last.bucket]

\* The last call was a multipart UploadLargeObject that returned a part's failure.
PartFailureReturned ==
    /\ last.op = "UploadLargeObject"
    /\ last.multipart
    /\ last.errFrom = "part"

SessionSteps == {<<"Initiated", "PartsUploading">>, <<"PartsUploading", "Completed">>,
                 <<"PartsUploading", "Aborted">>}

\* C4 as stated: when a part upload fails, the session is Aborted by the time
\* UploadLargeObject returns, and the error returned is the part's failure.
C4_AbortedBeforeReturn ==
    PartFailureReturned =>
        /\ sessions[last.id] = "Aborted"
        /\ last.err = "UploadPart failed"

\* C4, amended: a session moves Initiated -> PartsUploading -> {Completed |
\* Aborted} and never leaves Completed or Aborted.  When a part upload fails,
\* completion is not attempted and an abort of the session is issued before
\* UploadLargeObject returns; at the return the session is Aborted if the abort
\* succeeded and still PartsUploading if the abort request itself failed; the
\* error returned is the part's failure, never the abort's.
C4_SessionLifecycle ==
    /\ [](PartFailureReturned =>
            /\ last.abort # "none"
            /\ ~last.attempted
            /\ last.abort = "ok" => sessions[last.id] = "Aborted"
            /\ last.abort = "failed" => sessions[last.id] = "PartsUploading"
            /\ last.err = "UploadPart failed"
            /\ last.failed # {})
    /\ [][/\ Len(sessions') >= Len(sessions)
          /\ \A i \in DOMAIN sessions :
                sessions'[i] # sessions[i] => <<sessions[i], sessions'[i]>> \in SessionSteps
         ]_vars

C4_Witness ==
    /\ PartFailureReturned
    /\ last.abort = "ok"
    /\ sessions[last.id] = "Aborted"
    /\ Len(sessions) = 2
    /\ sessions[1] = "Completed"

\* C5 as stated: an upload that fails on a part leaves the key holding what it
\* held before the call, and the session aborted.
C5_FailedUploadAborted ==
    PartFailureReturned =>
        /\ ObjAt(last.bucket, last.key) = last.before
        /\ sessions[last.id] = "Aborted"

AllParts(manifest, src) ==
    /\ Len(manifest) = NumParts(src)
    /\ \A i \in 1..Len(manifest) :
          manifest[i].num = i /\ manifest[i].etag = Chunk(src, i)

\* C5, amended: during a multipart upload the key holds what it held before the
\* call until the session is Completed, which happens only with a manifest of
\* all parts and then the key holds the whole payload.  An upload that fails on
\* a part returns with the key holding exactly what it held before the call and
\* with the session aborted, unless the abort request itself failed, in which
\* case the session stays open at the provider.
C5_Atomic ==
    /\ up.phase # "idle" =>
          IF sessions[up.id] = "Completed"
          THEN /\ ObjAt(up.bucket, up.key) = [has |-> TRUE, data |-> up.src]
               /\ up.err = NoErr
               /\ AllParts(up.manifest, up.src)
          ELSE ObjAt(up.bucket, up.key) = up.before
    /\ PartFailureReturned =>
          /\ ObjAt(last.bucket, last.key) = last.before
          /\ sessions[last.id] # "Completed"
          /\ last.abort = "ok" <=> sessions[last.id] = "Aborted"

C5_Witness ==
    /\ PartFailureReturned
    /\ NumParts(last.src) = MaxParts
    /\ last.failed = {MaxParts}
    /\ Len(last.order) = MaxParts - 1
    /\ last.before = [has |-> TRUE, data |-> OldData]
    /\ ObjAt(last.bucket, last.key) = last.before
    /\ sessions[last.id] = "Aborted"

\* C6: whenever completion of a session is attempted, the manifest lists every
\* part of the payload exactly once in ascending part-number order with the part's
\* own ETag, whatever the order in which the concurrent part uploads ended.
C6_Manifest ==
    /\ (up.phase # "idle" /\ up.attempted) => AllParts(up.manifest, up.src)
    /\ (last.op = "UploadLargeObject" /\ last.multipart /\ last.attempted) =>
          AllParts(last.manifest, last.src)

C6_Witness ==
    /\ last.op = "UploadLargeObject"
    /\ last.multipart
    /\ last.attempted
    /\ last.err = NoErr
    /\ NumParts(last.src) = MaxParts
    /\ ~IsAscending(last.order)

\* C7: when DownloadLargeObject returns without error the buffer equals the
\* stored object byte for byte, whatever the order in which the ranged reads
\* ended; while it runs, every byte already written sits at its own offset.
C7_DownloadOrder ==
    /\ (last.op = "DownloadLargeObject" /\ last.err = NoErr) =>
          last.bytes = store[last.bucket][last.key]
    /\ (down.phase # "idle" /\ down.total > 0) =>
          \A i \in 1..Len(down.buffer) :
             down.buffer[i] \in {0, store[down.bucket][down.key][i]}

C7_Witness ==
    /\ last.op = "DownloadLargeObject"
    /\ last.err = NoErr
    /\ Len(last.bytes) = MaxLen
    /\ ~IsAscendingSeq(last.order)

\* C8: a download that follows a successful UploadLargeObject of the same key
\* and returns without error yields bytes identical to the uploaded source.
C8_RoundTrip ==
    (last.op = "DownloadFile" /\ last.uploaded.ok /\ last.err = NoErr) =>
        /\ files[last.file].exists
        /\ files[last.file].data = last.uploaded.src

====
